---- MODULE Spec2Model ----
(***************************************************************************)
(* hana_mcp_server.py: four MCP tools (list_schemas, list_tables,          *)
(* describe_table, run_sql) that each open a HANA connection, run one      *)
(* statement through a cursor and return a string.                         *)
(*                                                                         *)
(* A Python str is modelled as a sequence of text chunks (an f-string is   *)
(* the concatenation of its parts); identifiers are sequences of one-      *)
(* character chunks, so that str.upper() is computed character by          *)
(* character.  A tool invocation is a small sequential process: its pc     *)
(* names the driver call it is about to make.  Each driver call either     *)
(* returns or raises; the database behind the driver is a small catalog.   *)
(***************************************************************************)
EXTENDS Integers, Sequences, FiniteSets, TLC

VARIABLES
    cli,          \* the command line: whether --test was given, and its string
    main,         \* position of the __main__ block
    stdout,       \* what the process has printed
    config_file,  \* state of CONFIG_FILE on disk
    open_conns,   \* sessions the backend currently holds open
    pc,           \* pc[i]: position of invocation i in its tool function
    op,           \* op[i]: the tool being run
    args,         \* args[i]: the tool's arguments
    conn,         \* conn[i]: the local `conn`
    cursor,       \* cursor[i]: the local `cursor`
    ret,          \* ret[i]: value of the pending `return`
    exc,          \* exc[i]: exception propagating out of the function
    calls         \* calls[i]: driver calls made so far, in order

vars ==
    <<cli, main, stdout, config_file, open_conns, pc, op, args, conn, cursor, ret, exc,
      calls>>

-----------------------------------------------------------------------------
(* Bounds *)

MaxNameLen == 2
MaxRows == 2
MaxRowCount == 3
MaxConnections == 2

\* Slots for tool invocations (requests being served).
Invs == {1, 2}

-----------------------------------------------------------------------------
(* Python values *)

SeqsUpTo(S, n) == UNION {[1..k -> S] : k \in 0..n}

Chars == {"t", "T", "_"}

\* Identifier arguments a caller can pass.
Names == SeqsUpTo(Chars, MaxNameLen) \ {<<>>}

UpperChar(c) == IF c = "t" THEN "T" ELSE c

\* str.upper()
upper(s) == [k \in 1..Len(s) |-> UpperChar(s[k])]

\* Values a result cell can hold: a str or None.
Str(s) == [t |-> "str", v |-> s]

None == [t |-> "NoneType", v |-> <<>>]

Cells == {Str(<<"x">>), None}

NoValue == [kind |-> "none"]

\* str(e) of the exceptions the driver raises.
DriverErrors == {<<"connection lost">>, <<"invalid statement">>}

-----------------------------------------------------------------------------
(* json.dumps: the document is kept as its JSON value tree *)

\* Values of the other types the driver hands back.  A Decimal carries the
\* characters of its plain notation, a datetime its fields (year .. second,
\* microsecond), a date its three fields, bytes its content.
Bool(b) == [t |-> "bool", v |-> <<IF b THEN "True" ELSE "False">>]

Integer(text) == [t |-> "int", v |-> <<text>>]

Float(text) == [t |-> "float", v |-> text]

Decimal(chars) == [t |-> "Decimal", v |-> chars]

DateTime(y, m, d, H, M, S, us) == [t |-> "datetime", v |-> <<y, m, d, H, M, S, us>>]

Date(y, m, d) == [t |-> "date", v |-> <<y, m, d>>]

Bytes(text) == [t |-> "bytes", v |-> <<text>>]

\* One value of each kind a HANA column can hold.
TypedCells ==
    {None, Bool(TRUE), Integer("7"), Float(<<"1", ".", "5">>), Str(<<"x">>),
     Decimal(<<"1", ".", "1", "0">>), Decimal(<<"2">>),
     DateTime(2024, 1, 5, 7, 8, 9, 0), DateTime(2024, 12, 31, 23, 59, 59, 1500),
     Date(2024, 1, 5), Bytes("ab")}

Pad2(n) == IF n < 10 THEN "0" \o ToString(n) ELSE ToString(n)

Pad4(n) ==
    IF n < 10 THEN "000" \o ToString(n)
    ELSE IF n < 100 THEN "00" \o ToString(n)
    ELSE IF n < 1000 THEN "0" \o ToString(n)
    ELSE ToString(n)

Pad6(n) ==
    IF n < 10 THEN "00000" \o ToString(n)
    ELSE IF n < 100 THEN "0000" \o ToString(n)
    ELSE IF n < 1000 THEN "000" \o ToString(n)
    ELSE IF n < 10000 THEN "00" \o ToString(n)
    ELSE IF n < 100000 THEN "0" \o ToString(n)
    ELSE ToString(n)

\* date.isoformat()
DateIso(v) == Pad4(v[1]) \o "-" \o Pad2(v[2]) \o "-" \o Pad2(v[3])

\* datetime.isoformat(): the fraction appears only when it is not zero.
isoformat(obj) ==
    IF obj.t = "date" THEN <<DateIso(obj.v)>>
    ELSE <<DateIso(obj.v) \o "T" \o Pad2(obj.v[4]) \o ":" \o Pad2(obj.v[5]) \o ":"
             \o Pad2(obj.v[6])
             \o (IF obj.v[7] = 0 THEN "" ELSE "." \o Pad6(obj.v[7]))>>

RECURSIVE StripZeros(_)
StripZeros(chars) ==
    IF chars # <<>> /\ chars[Len(chars)] = "0"
    THEN StripZeros(SubSeq(chars, 1, Len(chars) - 1))
    ELSE chars

\* float(obj) of a Decimal, as float.__repr__ writes it: the shortest text
\* that reads back as the same float.  For a plain-notation Decimal of at
\* most 15 significant digits that is the Decimal without the trailing zeros
\* of its fraction, and with ".0" when no fraction is left.
DecimalToFloat(chars) ==
    IF \A k \in 1..Len(chars) : chars[k] # "."
    THEN chars \o <<".", "0">>
    ELSE LET stripped == StripZeros(chars)
         IN IF stripped[Len(stripped)] = "." THEN stripped \o <<"0">> ELSE stripped

\* str(obj) of the remaining types.
PyStr(obj) ==
    IF obj.t = "bytes" THEN <<"b'" \o obj.v[1] \o "'">>
    ELSE obj.v

\* No branch for Decimal: it falls through to str(obj).
json_default_NoDecimal(obj) ==
    IF obj.t \in {"datetime", "date"} THEN Str(isoformat(obj))
    ELSE Str(PyStr(obj))

\* json_default: called by json.dumps for an object it cannot serialise
\* natively; what it returns is serialised in the object's place.
json_default(obj) ==
    IF obj.t \in {"datetime", "date"} THEN Str(isoformat(obj))
    ELSE IF obj.t = "Decimal" THEN Float(DecimalToFloat(obj.v))
    ELSE Str(PyStr(obj))

NativeTypes == {"str", "NoneType", "bool", "int", "float"}

\* json.dumps of a value of a type it serialises natively.
JsonNative(obj) ==
    IF obj.t = "str" THEN [j |-> "string", v |-> obj.v]
    ELSE IF obj.t = "NoneType" THEN [j |-> "null", v |-> <<>>]
    ELSE IF obj.t = "bool"
    THEN [j |-> "boolean", v |-> <<IF obj.v = <<"True">> THEN "true" ELSE "false">>]
    ELSE [j |-> "number", v |-> obj.v]

JsonScalar(obj) ==
    IF obj.t \in NativeTypes THEN JsonNative(obj) ELSE JsonNative(json_default(obj))

\* a list or tuple of scalars -> JSON array
JsonArray(xs) == [k \in 1..Len(xs) |-> JsonScalar(xs[k])]

\* a list of row tuples -> JSON array of arrays
JsonRows(rows) == [k \in 1..Len(rows) |-> JsonArray(rows[k])]

-----------------------------------------------------------------------------
(* The database behind the driver *)

SQL_LIST_SCHEMAS == <<"SELECT SCHEMA_NAME FROM SYS.SCHEMAS ORDER BY SCHEMA_NAME">>

SQL_LIST_TABLES ==
    <<"SELECT TABLE_NAME FROM SYS.TABLES WHERE SCHEMA_NAME = ? ORDER BY TABLE_NAME">>

SQL_DESCRIBE_TABLE ==
    <<"SELECT COLUMN_NAME, DATA_TYPE_NAME, LENGTH, SCALE, IS_NULLABLE FROM SYS.TABLE_COLUMNS WHERE SCHEMA_NAME = ? AND TABLE_NAME = ? ORDER BY POSITION">>

\* SYS.SCHEMAS, in SCHEMA_NAME order.  <<"t">> is a schema created with a
\* quoted lower-case name.
SysSchemas == << <<"T">>, <<"T", "_">>, <<"t">> >>

\* SYS.TABLES, per schema in TABLE_NAME order.
SysTables(schema) ==
    IF schema = <<"T">> THEN << <<"T">>, <<"T", "T">> >>
    ELSE IF schema = <<"t">> THEN << <<"_">> >>
    ELSE <<>>

\* SYS.TABLE_COLUMNS, per table in POSITION order: COLUMN_NAME,
\* DATA_TYPE_NAME, LENGTH, SCALE, IS_NULLABLE.
SysTableColumns(schema, table) ==
    IF schema = <<"T">> /\ table = <<"T">>
    THEN << <<Str(<<"ID">>), Str(<<"INTEGER">>), Integer("10"),
              Integer("0"), Str(<<"FALSE">>)>>,
            <<Str(<<"NAME">>), Str(<<"NVARCHAR">>), Integer("20"),
              None, Str(<<"TRUE">>)>> >>
    ELSE IF schema = <<"T">> /\ table = <<"T", "T">>
    THEN << <<Str(<<"ID">>), Str(<<"INTEGER">>), Integer("10"),
              Integer("0"), Str(<<"FALSE">>)>> >>
    ELSE IF schema = <<"t">> /\ table = <<"_">>
    THEN << <<Str(<<"X">>), Str(<<"NVARCHAR">>), Integer("5"),
              None, Str(<<"TRUE">>)>> >>
    ELSE <<>>

\* cursor.description of a statement: one entry (name, type_code) per
\* result column.  NoDescription is the None the driver leaves for a
\* statement that returns no rows; a row-returning statement has at least
\* one column, so the falsy values of `if cursor.description` are this one.
NoDescription == <<>>

Column(name, type) == <<name, type>>

DescribeDescription ==
    << Column(<<"COLUMN_NAME">>, "NVARCHAR"), Column(<<"DATA_TYPE_NAME">>, "VARCHAR"),
       Column(<<"LENGTH">>, "INTEGER"), Column(<<"SCALE">>, "INTEGER"),
       Column(<<"IS_NULLABLE">>, "VARCHAR") >>

\* Statements a caller passes to run_sql.
Q_SELECT1 == <<"SELECT NAME FROM T">>

Q_SELECT2 == <<"SELECT ID, NAME FROM T">>

Q_DELETE == <<"DELETE FROM T">>

Q_CREATE == <<"CREATE TABLE U (A INT)">>

Q_INVALID == <<"SELEC">>

\* A table with one column per row that holds values of every type.
Q_TYPED == <<"SELECT V FROM TYPED">>

Queries == {Q_SELECT1, Q_SELECT2, Q_TYPED, Q_DELETE, Q_CREATE, Q_INVALID}

OneColumn(rows) == [k \in 1..Len(rows) |-> <<Str(rows[k])>>]

Result(description, rowcount, rows) ==
    [description |-> description, rowcount |-> rowcount, rows |-> rows]

\* What a successful cursor.execute(sql, params) can leave on the cursor.
\* rowcount follows DB-API: -1 when the driver cannot tell (queries, DDL).
ExecuteResults(sql, params) ==
    IF sql = SQL_LIST_SCHEMAS
    THEN {Result(<<Column(<<"SCHEMA_NAME">>, "NVARCHAR")>>, -1, OneColumn(SysSchemas))}
    ELSE IF sql = SQL_LIST_TABLES
    THEN {Result(<<Column(<<"TABLE_NAME">>, "NVARCHAR")>>, -1,
                 OneColumn(SysTables(params[1])))}
    ELSE IF sql = SQL_DESCRIBE_TABLE
    THEN {Result(DescribeDescription, -1, SysTableColumns(params[1], params[2]))}
    ELSE IF sql = Q_SELECT1
    THEN {Result(<<Column(<<"NAME">>, "NVARCHAR")>>, -1, rows) :
              rows \in SeqsUpTo([1..1 -> Cells], MaxRows)}
    ELSE IF sql = Q_SELECT2
    THEN {Result(<<Column(<<"ID">>, "INTEGER"), Column(<<"NAME">>, "NVARCHAR")>>, -1, rows) :
              rows \in SeqsUpTo([1..2 -> Cells], MaxRows)}
    ELSE IF sql = Q_TYPED
    THEN {Result(<<Column(<<"V">>, "ANY")>>, -1, rows) :
              rows \in SeqsUpTo([1..1 -> TypedCells], MaxRows)}
    ELSE IF sql = Q_DELETE
    THEN {Result(NoDescription, n, <<>>) : n \in 0..MaxRowCount}
    ELSE IF sql = Q_CREATE
    THEN {Result(NoDescription, n, <<>>) : n \in {-1, 0}}
    ELSE {}

-----------------------------------------------------------------------------
(* The tool functions' expressions *)

Tools == {"list_schemas", "list_tables", "describe_table", "run_sql"}

NoArgs == [schema |-> <<>>, table |-> <<>>, query |-> <<>>]

\* The argument tuples each tool can be invoked with.
ArgsOf(tool) ==
    IF tool = "list_schemas" THEN {NoArgs}
    ELSE IF tool = "list_tables"
    THEN {[NoArgs EXCEPT !.schema = s] : s \in Names}
    ELSE IF tool = "describe_table"
    THEN {[NoArgs EXCEPT !.schema = s, !.table = t] : s \in Names, t \in Names}
    ELSE {[NoArgs EXCEPT !.query = q] : q \in Queries}

\* The schema bound as the caller wrote it.
ListTablesParams_NoUpper(a) == <<a.schema>>

\* (schema.upper(),)
ListTablesParams(a) == <<upper(a.schema)>>

\* (schema.upper(), table.upper())
DescribeTableParams(a) == <<upper(a.schema), upper(a.table)>>

\* The first argument of cursor.execute.
StatementText(tool, a) ==
    IF tool = "list_schemas" THEN SQL_LIST_SCHEMAS
    ELSE IF tool = "list_tables" THEN SQL_LIST_TABLES
    ELSE IF tool = "describe_table" THEN SQL_DESCRIBE_TABLE
    ELSE a.query

\* The second argument of cursor.execute (absent: no parameters).
StatementParams(tool, a) ==
    IF tool = "list_tables" THEN ListTablesParams(a)
    ELSE IF tool = "describe_table" THEN DescribeTableParams(a)
    ELSE <<>>

\* The f-string of each tool's except clause.
ErrorText(tool, a, e) ==
    IF tool = "list_schemas" THEN <<"Error listing schemas: ">> \o e
    ELSE IF tool = "list_tables"
    THEN <<"Error listing tables for schema ">> \o a.schema \o <<": ">> \o e
    ELSE IF tool = "describe_table"
    THEN <<"Error describing table ">> \o a.schema \o <<".">> \o a.table \o <<": ">> \o e
    ELSE <<"SQL Error: ">> \o e

ErrorString(tool, a, e) == [kind |-> "error", text |-> ErrorText(tool, a, e)]

\* The rows collected in the wrong order.
FirstFields_Reversed(fetched) ==
    [k \in 1..Len(fetched) |-> fetched[Len(fetched) + 1 - k][1]]

\* [r[0] for r in cursor.fetchall()]
FirstFields(fetched) == [k \in 1..Len(fetched) |-> fetched[k][1]]

\* [col[0] for col in cursor.description]
ColumnNames(description) == [k \in 1..Len(description) |-> description[k][1]]

\* json.dumps(rows, ...)
ListPayload(fetched) ==
    [kind |-> "json", shape |-> "list", doc |-> JsonArray(FirstFields(fetched))]

\* json.dumps({"columns": cols, "rows": rows}, ...)
RowsPayload(description, fetched) ==
    [kind |-> "json", shape |-> "rows",
     doc |-> [columns |-> JsonArray([k \in 1..Len(description) |->
                                        Str(ColumnNames(description)[k])]),
              rows |-> JsonRows(fetched)]]

\* json.dumps({"message": f"{cursor.rowcount} rows affected."}, ...)
AffectedPayload(rowcount) ==
    [kind |-> "json", shape |-> "affected",
     doc |-> [message |-> <<ToString(rowcount), " rows affected.">>]]

\* The test of the descriptor inverted.
RunSqlFetches_Inverted(description) == description = NoDescription

\* `if cursor.description:` in run_sql
RunSqlFetches(description) == description # NoDescription

\* The commit forgotten: a statement without descriptor goes straight to
\* the finally clause.
AfterExecute_NoCommit(tool, description) ==
    IF tool = "run_sql" /\ ~RunSqlFetches(description) THEN "cursor_close" ELSE "fetchall"

\* run_sql commits whatever the statement was.
AfterExecute_AlwaysCommit(tool, description) ==
    IF tool = "run_sql" THEN "commit" ELSE "fetchall"

\* What the try block does after cursor.execute returned.
AfterExecute(tool, description) ==
    IF tool = "run_sql" /\ ~RunSqlFetches(description) THEN "commit" ELSE "fetchall"

\* An empty result set reported as an error.
FetchedPayload_EmptyIsError(tool, description, fetched) ==
    IF fetched = <<>> THEN [kind |-> "error", text |-> <<"Error: ", "no rows">>]
    ELSE IF tool \in {"list_schemas", "list_tables"} THEN ListPayload(fetched)
    ELSE RowsPayload(description, fetched)

\* What the try block returns once the rows are fetched.
FetchedPayload(tool, description, fetched) ==
    IF tool \in {"list_schemas", "list_tables"} THEN ListPayload(fetched)
    ELSE RowsPayload(description, fetched)

-----------------------------------------------------------------------------
(* State *)

NoCursor ==
    [state |-> "none", sql |-> <<>>, params |-> <<>>,
     description |-> NoDescription, rowcount |-> -1, rows |-> <<>>]

NoExc == [type |-> "none", msg |-> <<>>]

Exception(type, msg) == [type |-> type, msg |-> msg]

Called(fn, ok) == [fn |-> fn, ok |-> ok]

\* argparse: --test absent (args.test is None) or given with a string,
\* which may be empty.
CommandLines ==
    {[given |-> FALSE, test |-> <<>>]} \cup {[given |-> TRUE, test |-> q] : q \in Queries \cup {<<>>}}

Init ==
    /\ cli \in CommandLines
    /\ main = "start"
    /\ stdout = <<>>
    /\ config_file \in {"present", "missing", "malformed"}
    /\ open_conns = 0
    /\ pc = [i \in Invs |-> "idle"]
    /\ op = [i \in Invs |-> "none"]
    /\ args = [i \in Invs |-> NoArgs]
    /\ conn = [i \in Invs |-> "none"]
    /\ cursor = [i \in Invs |-> NoCursor]
    /\ ret = [i \in Invs |-> NoValue]
    /\ exc = [i \in Invs |-> NoExc]
    /\ calls = [i \in Invs |-> <<>>]

\* The transport hands the server one request at a time: a synchronous
\* tool function runs to its end before the next one is entered.
Serving == \E i \in Invs : pc[i] # "idle"

-----------------------------------------------------------------------------
(* One tool invocation, driver call by driver call *)

\* `if args.test:`
TestMode(c) == c.given /\ c.test # <<>>

\* The banner of test mode.
Banner(c) == [kind |-> "text", text |-> <<"[TEST MODE] Running:", " ">> \o c.test]

\* __main__: the arguments are parsed; with a test string the banner is
\* printed and run_sql is about to be called, otherwise mcp.run() serves.
ParseArgs ==
    /\ main = "start"
    /\ main' = IF TestMode(cli) THEN "test" ELSE "serving"
    /\ stdout' = IF TestMode(cli) THEN <<Banner(cli)>> ELSE stdout
    /\ UNCHANGED <<cli, config_file, open_conns, pc, op, args, conn, cursor, ret, exc, calls>>

\* A request takes the first free slot.
FirstFree(i) == pc[i] = "idle" /\ \A j \in Invs : j < i => pc[j] # "idle"

\* mcp.run(): a tool function is entered for a request.
Invoke(i) ==
    /\ main = "serving"
    /\ FirstFree(i)
    /\ ~Serving
    /\ \E tool \in Tools : \E a \in ArgsOf(tool) :
          /\ op' = [op EXCEPT ![i] = tool]
          /\ args' = [args EXCEPT ![i] = a]
    /\ pc' = [pc EXCEPT ![i] = "connect"]
    /\ UNCHANGED <<cli, main, stdout, config_file, open_conns, conn, cursor, ret, exc, calls>>

\* Test mode: run_sql(args.test) is entered.
InvokeTest(i) ==
    /\ main = "test"
    /\ FirstFree(i)
    /\ main' = "test_call"
    /\ op' = [op EXCEPT ![i] = "run_sql"]
    /\ args' = [args EXCEPT ![i] = [NoArgs EXCEPT !.query = cli.test]]
    /\ pc' = [pc EXCEPT ![i] = "connect"]
    /\ UNCHANGED <<cli, stdout, config_file, open_conns, conn, cursor, ret, exc, calls>>

\* connect_hana: load_config raises (file missing, or not the JSON object
\* connect_hana reads); nothing encloses the call, so the tool raises.
LoadConfigRaises(i) ==
    /\ pc[i] = "connect"
    /\ config_file # "present"
    /\ exc' = [exc EXCEPT ![i] =
                 IF config_file = "missing"
                 THEN Exception("FileNotFoundError", <<"Config file not found: ", "hana_config.json">>)
                 ELSE Exception("JSONDecodeError", <<"Expecting value">>)]
    /\ pc' = [pc EXCEPT ![i] = "done"]
    /\ UNCHANGED <<cli, main, stdout, config_file, open_conns, op, args, conn, cursor, ret, calls>>

\* connect_hana: dbapi.connect returns a connection.
ConnectReturns(i) ==
    /\ pc[i] = "connect"
    /\ config_file = "present"
    /\ open_conns < MaxConnections
    /\ conn' = [conn EXCEPT ![i] = "open"]
    /\ open_conns' = open_conns + 1
    /\ calls' = [calls EXCEPT ![i] = Append(@, Called("connect", TRUE))]
    /\ pc' = [pc EXCEPT ![i] = "cursor"]
    /\ UNCHANGED <<cli, main, stdout, config_file, op, args, cursor, ret, exc>>

\* connect_hana: dbapi.connect raises (authentication, network, session
\* limit); nothing encloses the call, so the tool raises.
ConnectRaises(i) ==
    /\ pc[i] = "connect"
    /\ config_file = "present"
    /\ \E e \in DriverErrors : exc' = [exc EXCEPT ![i] = Exception("Error", e)]
    /\ calls' = [calls EXCEPT ![i] = Append(@, Called("connect", FALSE))]
    /\ pc' = [pc EXCEPT ![i] = "done"]
    /\ UNCHANGED <<cli, main, stdout, config_file, open_conns, op, args, conn, cursor, ret>>

\* cursor = conn.cursor()
CursorReturns(i) ==
    /\ pc[i] = "cursor"
    /\ cursor' = [cursor EXCEPT ![i].state = "open"]
    /\ calls' = [calls EXCEPT ![i] = Append(@, Called("cursor", TRUE))]
    /\ pc' = [pc EXCEPT ![i] = "execute"]
    /\ UNCHANGED <<cli, main, stdout, config_file, open_conns, op, args, conn, ret, exc>>

\* conn.cursor() raises: the call is before the try, so the tool raises
\* with conn still open.
CursorRaises(i) ==
    /\ pc[i] = "cursor"
    /\ \E e \in DriverErrors : exc' = [exc EXCEPT ![i] = Exception("Error", e)]
    /\ calls' = [calls EXCEPT ![i] = Append(@, Called("cursor", FALSE))]
    /\ pc' = [pc EXCEPT ![i] = "done"]
    /\ UNCHANGED <<cli, main, stdout, config_file, open_conns, op, args, conn, cursor, ret>>

\* cursor.execute(...) returns.
ExecuteReturns(i) ==
    /\ pc[i] = "execute"
    /\ LET sql == StatementText(op[i], args[i])
           params == StatementParams(op[i], args[i])
       IN \E r \in ExecuteResults(sql, params) :
            /\ cursor' = [cursor EXCEPT ![i] =
                            [state |-> "open", sql |-> sql, params |-> params,
                             description |-> r.description, rowcount |-> r.rowcount,
                             rows |-> r.rows]]
            /\ pc' = [pc EXCEPT ![i] = AfterExecute(op[i], r.description)]
    /\ calls' = [calls EXCEPT ![i] = Append(@, Called("execute", TRUE))]
    /\ UNCHANGED <<cli, main, stdout, config_file, open_conns, op, args, conn, ret, exc>>

\* cursor.execute(...) raises: the except clause returns the error string.
ExecuteRaises(i) ==
    /\ pc[i] = "execute"
    /\ cursor' = [cursor EXCEPT ![i].sql = StatementText(op[i], args[i]),
                                ![i].params = StatementParams(op[i], args[i])]
    /\ \E e \in DriverErrors : ret' = [ret EXCEPT ![i] = ErrorString(op[i], args[i], e)]
    /\ calls' = [calls EXCEPT ![i] = Append(@, Called("execute", FALSE))]
    /\ pc' = [pc EXCEPT ![i] = "cursor_close"]
    /\ UNCHANGED <<cli, main, stdout, config_file, open_conns, op, args, conn, exc>>

\* cursor.fetchall() returns: the try block returns the payload.
FetchallReturns(i) ==
    /\ pc[i] = "fetchall"
    /\ ret' = [ret EXCEPT ![i] =
                 FetchedPayload(op[i], cursor[i].description, cursor[i].rows)]
    /\ calls' = [calls EXCEPT ![i] = Append(@, Called("fetchall", TRUE))]
    /\ pc' = [pc EXCEPT ![i] = "cursor_close"]
    /\ UNCHANGED <<cli, main, stdout, config_file, open_conns, op, args, conn, cursor, exc>>

\* cursor.fetchall() raises.
FetchallRaises(i) ==
    /\ pc[i] = "fetchall"
    /\ \E e \in DriverErrors : ret' = [ret EXCEPT ![i] = ErrorString(op[i], args[i], e)]
    /\ calls' = [calls EXCEPT ![i] = Append(@, Called("fetchall", FALSE))]
    /\ pc' = [pc EXCEPT ![i] = "cursor_close"]
    /\ UNCHANGED <<cli, main, stdout, config_file, open_conns, op, args, conn, cursor, exc>>

\* run_sql: conn.commit() returns, the try block returns the message.
CommitReturns(i) ==
    /\ pc[i] = "commit"
    /\ ret' = [ret EXCEPT ![i] = AffectedPayload(cursor[i].rowcount)]
    /\ calls' = [calls EXCEPT ![i] = Append(@, Called("commit", TRUE))]
    /\ pc' = [pc EXCEPT ![i] = "cursor_close"]
    /\ UNCHANGED <<cli, main, stdout, config_file, open_conns, op, args, conn, cursor, exc>>

\* run_sql: conn.commit() raises.
CommitRaises(i) ==
    /\ pc[i] = "commit"
    /\ \E e \in DriverErrors : ret' = [ret EXCEPT ![i] = ErrorString(op[i], args[i], e)]
    /\ calls' = [calls EXCEPT ![i] = Append(@, Called("commit", FALSE))]
    /\ pc' = [pc EXCEPT ![i] = "cursor_close"]
    /\ UNCHANGED <<cli, main, stdout, config_file, open_conns, op, args, conn, cursor, exc>>

\* The finally clause closes the connection only.
CursorCloseReturns_Forgotten(i) ==
    /\ pc[i] = "cursor_close"
    /\ pc' = [pc EXCEPT ![i] = "conn_close"]
    /\ UNCHANGED <<cli, main, stdout, config_file, open_conns, op, args, conn, cursor, ret, exc,
                   calls>>

\* finally: cursor.close() returns.
CursorCloseReturns(i) ==
    /\ pc[i] = "cursor_close"
    /\ cursor' = [cursor EXCEPT ![i].state = "closed"]
    /\ calls' = [calls EXCEPT ![i] = Append(@, Called("cursor.close", TRUE))]
    /\ pc' = [pc EXCEPT ![i] = "conn_close"]
    /\ UNCHANGED <<cli, main, stdout, config_file, open_conns, op, args, conn, ret, exc>>

\* cursor.close() and conn.close() in one finally clause, without the
\* inner try/finally: a failing cursor.close() skips conn.close().
CursorCloseRaises_NoInnerFinally(i) ==
    /\ pc[i] = "cursor_close"
    /\ cursor' = [cursor EXCEPT ![i].state = "closed"]
    /\ \E e \in DriverErrors : exc' = [exc EXCEPT ![i] = Exception("Error", e)]
    /\ calls' = [calls EXCEPT ![i] = Append(@, Called("cursor.close", FALSE))]
    /\ pc' = [pc EXCEPT ![i] = "done"]
    /\ UNCHANGED <<cli, main, stdout, config_file, open_conns, op, args, conn, ret>>

\* finally: cursor.close() raises; the exception replaces the pending
\* return and the inner finally still runs.
CursorCloseRaises(i) ==
    /\ pc[i] = "cursor_close"
    /\ cursor' = [cursor EXCEPT ![i].state = "closed"]
    /\ \E e \in DriverErrors : exc' = [exc EXCEPT ![i] = Exception("Error", e)]
    /\ calls' = [calls EXCEPT ![i] = Append(@, Called("cursor.close", FALSE))]
    /\ pc' = [pc EXCEPT ![i] = "conn_close"]
    /\ UNCHANGED <<cli, main, stdout, config_file, open_conns, op, args, conn, ret>>

\* inner finally: conn.close() returns.
ConnCloseReturns(i) ==
    /\ pc[i] = "conn_close"
    /\ conn' = [conn EXCEPT ![i] = "closed"]
    /\ open_conns' = open_conns - 1
    /\ calls' = [calls EXCEPT ![i] = Append(@, Called("conn.close", TRUE))]
    /\ pc' = [pc EXCEPT ![i] = "done"]
    /\ UNCHANGED <<cli, main, stdout, config_file, op, args, cursor, ret, exc>>

\* inner finally: conn.close() raises; its exception is the one that
\* leaves the function.  The session is gone on the backend's side (the
\* link broke) or not (the close was refused).
ConnCloseRaises(i) ==
    /\ pc[i] = "conn_close"
    /\ conn' = [conn EXCEPT ![i] = "closed"]
    /\ \E released \in BOOLEAN :
          open_conns' = IF released THEN open_conns - 1 ELSE open_conns
    /\ \E e \in DriverErrors : exc' = [exc EXCEPT ![i] = Exception("Error", e)]
    /\ calls' = [calls EXCEPT ![i] = Append(@, Called("conn.close", FALSE))]
    /\ pc' = [pc EXCEPT ![i] = "done"]
    /\ UNCHANGED <<cli, main, stdout, config_file, op, args, cursor, ret>>

\* The function has ended: how it ended, as its caller sees it.
Raised(i) == exc[i] # NoExc

Returned(i) == pc[i] = "done" /\ ~Raised(i)

\* Test mode: print(run_sql(args.test)), and the script ends.
PrintResult(i) ==
    /\ main = "test_call"
    /\ Returned(i)
    /\ stdout' = Append(stdout, ret[i])
    /\ main' = "exited"
    /\ UNCHANGED <<cli, config_file, open_conns, pc, op, args, conn, cursor, ret, exc, calls>>

\* Test mode: run_sql raised; nothing catches the exception, print is not
\* reached and the interpreter ends the process with a traceback.
Traceback(i) ==
    /\ main = "test_call"
    /\ pc[i] = "done"
    /\ Raised(i)
    /\ main' = "crashed"
    /\ UNCHANGED <<cli, stdout, config_file, open_conns, pc, op, args, conn, cursor, ret, exc,
                   calls>>

\* Serving: the caller (the MCP server) takes the outcome; the frame and its
\* locals are gone.  A connection the frame left open stays open on the
\* backend.
Return(i) ==
    /\ main = "serving"
    /\ pc[i] = "done"
    /\ pc' = [pc EXCEPT ![i] = "idle"]
    /\ op' = [op EXCEPT ![i] = "none"]
    /\ args' = [args EXCEPT ![i] = NoArgs]
    /\ conn' = [conn EXCEPT ![i] = "none"]
    /\ cursor' = [cursor EXCEPT ![i] = NoCursor]
    /\ ret' = [ret EXCEPT ![i] = NoValue]
    /\ exc' = [exc EXCEPT ![i] = NoExc]
    /\ calls' = [calls EXCEPT ![i] = <<>>]
    /\ UNCHANGED <<cli, main, stdout, config_file, open_conns>>

Step(i) ==
        \/ Invoke(i)
        \/ InvokeTest(i)
        \/ PrintResult(i)
        \/ Traceback(i)
        \/ LoadConfigRaises(i)
        \/ ConnectReturns(i)
        \/ ConnectRaises(i)
        \/ CursorReturns(i)
        \/ CursorRaises(i)
        \/ ExecuteReturns(i)
        \/ ExecuteRaises(i)
        \/ FetchallReturns(i)
        \/ FetchallRaises(i)
        \/ CommitReturns(i)
        \/ CommitRaises(i)
        \/ CursorCloseReturns(i)
        \/ CursorCloseRaises(i)
        \/ ConnCloseReturns(i)
        \/ ConnCloseRaises(i)
        \/ Return(i)

Next == ParseArgs \/ \E i \in Invs : Step(i)

Spec == Init /\ [][Next]_vars

-----------------------------------------------------------------------------
(* Reading the record of driver calls *)

Made(i, fn) == {k \in 1..Len(calls[i]) : calls[i][k].fn = fn}

Succeeded(i, fn) == \E k \in Made(i, fn) : calls[i][k].ok

Failed(i, fn) == \E k \in Made(i, fn) : ~calls[i][k].ok

Before(i, fn1, fn2) == \A k1 \in Made(i, fn1) : \A k2 \in Made(i, fn2) : k1 < k2

Ended(i) == pc[i] = "done"

-----------------------------------------------------------------------------
(* Connection lifecycle *)

\* C1: every connection connect_hana opened is closed exactly once by the
\* time the invocation ends, on every exit path after the open, the
\* failure of conn.cursor() and of cursor.close() included.
C1_ClosedOnEveryExit ==
    \A i \in Invs :
        (Ended(i) /\ Succeeded(i, "connect")) => Cardinality(Made(i, "conn.close")) = 1

\* C2: when connect and conn.cursor() succeeded, connect calls minus
\* conn.close() calls is zero at the end of the invocation, whether
\* cursor.execute returned or raised.
C2_ConnectsMatchCloses ==
    \A i \in Invs :
        (Ended(i) /\ Succeeded(i, "connect") /\ Succeeded(i, "cursor"))
            => /\ Cardinality(Made(i, "execute")) = 1
               /\ Cardinality(Made(i, "connect")) - Cardinality(Made(i, "conn.close")) = 0

\* An invocation whose execute raised has ended with one connect and one
\* conn.close().
C2_Witness ==
    \E i \in Invs :
        /\ Ended(i)
        /\ Failed(i, "execute")
        /\ Cardinality(Made(i, "connect")) = 1
        /\ Cardinality(Made(i, "conn.close")) = 1

-----------------------------------------------------------------------------
(* Errors as data *)

IsPayload(v) == v.kind = "json"

IsErrorString(v) == v.kind = "error"

\* C3: every invocation ends by returning a string (a JSON payload or a
\* prefixed error message) and never by raising, whichever step failed.
C3_AlwaysReturnsString ==
    \A i \in Invs :
        Ended(i) => (~Raised(i) /\ (IsPayload(ret[i]) \/ IsErrorString(ret[i])))

\* The message a failed execute, fetchall or commit raised is the tail of
\* the error text.
EndsWithDriverError(text) ==
    \E e \in DriverErrors :
        /\ Len(text) > Len(e)
        /\ SubSeq(text, Len(text) - Len(e) + 1, Len(text)) = e

\* C4: when execute, fetchall or commit raised, the invocation's result is
\* the error string (the tool's prefix, then the driver's message) and no
\* success payload.
C4_DriverErrorBecomesErrorString ==
    \A i \in Invs :
        (Ended(i) /\ (Failed(i, "execute") \/ Failed(i, "fetchall") \/ Failed(i, "commit")))
            => /\ Returned(i)
               /\ IsErrorString(ret[i])
               /\ EndsWithDriverError(ret[i].text)

-----------------------------------------------------------------------------
(* run_sql: commit *)

\* C5: in run_sql, for a statement without column descriptor, conn.commit()
\* is called exactly once, after cursor.execute returned and before
\* conn.close(); the connection is not closed with the commit not attempted.
C5_CommitOnceBeforeClose ==
    \A i \in Invs :
        (op[i] = "run_sql" /\ Succeeded(i, "execute")
            /\ cursor[i].description = NoDescription)
            => /\ Cardinality(Made(i, "commit")) <= 1
               /\ Before(i, "execute", "commit")
               /\ Before(i, "commit", "cursor.close")
               /\ Before(i, "commit", "conn.close")
               /\ Made(i, "conn.close") # {} => Cardinality(Made(i, "commit")) = 1
               /\ Ended(i) => Cardinality(Made(i, "commit")) = 1

\* run_sql("DELETE FROM T") with 3 affected rows has returned its message
\* after execute, commit, cursor.close(), conn.close() in that order.
C5_Witness ==
    \E i \in Invs :
        /\ Returned(i)
        /\ op[i] = "run_sql"
        /\ args[i].query = Q_DELETE
        /\ cursor[i].rowcount = 3
        /\ calls[i] = <<Called("connect", TRUE), Called("cursor", TRUE),
                        Called("execute", TRUE), Called("commit", TRUE),
                        Called("cursor.close", TRUE), Called("conn.close", TRUE)>>

-----------------------------------------------------------------------------
(* run_sql: classification *)

\* Every driver call of the invocation returned.
NothingRaised(i) == \A k \in 1..Len(calls[i]) : calls[i][k].ok

HasDescriptor(i) == Len(cursor[i].description) > 0

\* C6: run_sql classifies by the column descriptor alone: a payload it
\* returns is Rows (the descriptor's columns, the fetched rows, which may be
\* none) exactly when the statement produced a descriptor and Affected (the
\* driver's row count, which may be 0) exactly when it did not; and it does
\* return that payload when no driver call raised.
C6_ClassifiedByDescriptor ==
    \A i \in Invs :
        (Ended(i) /\ op[i] = "run_sql" /\ Succeeded(i, "execute"))
            => /\ NothingRaised(i) => (Returned(i) /\ IsPayload(ret[i]))
               /\ IsPayload(ret[i]) =>
                     /\ ret[i].shape = "rows" <=> HasDescriptor(i)
                     /\ ret[i].shape = "affected" <=> ~HasDescriptor(i)
                     /\ ret[i].shape = "rows" =>
                           /\ Len(ret[i].doc.columns) = Len(cursor[i].description)
                           /\ \A k \in 1..Len(cursor[i].description) :
                                 ret[i].doc.columns[k].v = cursor[i].description[k][1]
                           /\ Len(ret[i].doc.rows) = Len(cursor[i].rows)
                     /\ ret[i].shape = "affected" =>
                           ret[i].doc.message =
                               <<ToString(cursor[i].rowcount), " rows affected.">>

\* A SELECT that fetched no row has returned Rows with its one column and
\* an empty row sequence.
C6_Witness ==
    \E i \in Invs :
        /\ Returned(i)
        /\ op[i] = "run_sql"
        /\ args[i].query = Q_SELECT1
        /\ cursor[i].rows = <<>>
        /\ ret[i].kind = "json"
        /\ ret[i].shape = "rows"
        /\ ret[i].doc.rows = <<>>
        /\ Len(ret[i].doc.columns) = 1

NonNegativeCounts == {ToString(n) : n \in 0..MaxRowCount}

\* C7: the affected-row count run_sql reports for a statement without
\* descriptor is a non-negative integer, whatever count the driver reports.
C7_CountNonNegative ==
    \A i \in Invs :
        (Returned(i) /\ op[i] = "run_sql" /\ IsPayload(ret[i]) /\ ret[i].shape = "affected")
            => ret[i].doc.message[1] \in NonNegativeCounts

-----------------------------------------------------------------------------
(* describe_table of a table the catalog does not know *)

\* describe_table fetched no row: the backend had no column for the
\* upper-cased schema and table.
DescribedNothing(i) ==
    /\ Ended(i)
    /\ op[i] = "describe_table"
    /\ Succeeded(i, "fetchall")
    /\ cursor[i].rows = <<>>

EmptyRowsPayload ==
    [kind |-> "json", shape |-> "rows", doc |-> [columns |-> <<>>, rows |-> <<>>]]

\* C8 as claimed: describe_table, when the backend has no matching column,
\* returns {"columns": [], "rows": []} and not an error string.
C8_EmptyColumnsAndRows ==
    \A i \in Invs :
        (DescribedNothing(i) /\ Returned(i)) => ret[i] = EmptyRowsPayload

FiveColumnNames ==
    << <<"COLUMN_NAME">>, <<"DATA_TYPE_NAME">>, <<"LENGTH">>, <<"SCALE">>,
       <<"IS_NULLABLE">> >>

\* C8 as amended: the result describe_table builds is then the payload
\* whose "columns" are the five names of the query's select list and whose
\* "rows" are empty; it is never an error string, and it is what the
\* invocation returns unless cursor.close() or conn.close() raises.
C8_FiveColumnsNoRows ==
    \A i \in Invs :
        DescribedNothing(i)
            => /\ IsPayload(ret[i])
               /\ ret[i].shape = "rows"
               /\ ret[i].doc.rows = <<>>
               /\ Len(ret[i].doc.columns) = 5
               /\ \A k \in 1..5 :
                     /\ ret[i].doc.columns[k].j = "string"
                     /\ ret[i].doc.columns[k].v = FiveColumnNames[k]
               /\ Raised(i) => (Failed(i, "cursor.close") \/ Failed(i, "conn.close"))

\* describe_table("t_", "t"): no such table; the payload was returned.
C8_Witness ==
    \E i \in Invs :
        /\ DescribedNothing(i)
        /\ Returned(i)
        /\ args[i].schema = <<"t", "_">>
        /\ args[i].table = <<"t">>
        /\ Len(ret[i].doc.columns) = 5
        /\ ret[i].doc.rows = <<>>

-----------------------------------------------------------------------------
(* Introspection: bound, upper-cased parameters *)

LowerCaseLetters == {"t"}

LowerChar(c) == IF c = "T" THEN "t" ELSE c

IsUpperCased(s) == \A k \in 1..Len(s) : s[k] \notin LowerCaseLetters

\* The two strings differ at most in the case of their letters.
SameButCase(s1, s2) ==
    /\ Len(s1) = Len(s2)
    /\ \A k \in 1..Len(s1) : LowerChar(s1[k]) = LowerChar(s2[k])

\* The arguments a caller can write that differ from s at most in case
\* (for an argument the tool does not take, <<>> alone).
CaseVariants(s) == {v \in Names \cup {<<>>} : SameButCase(v, s)}

\* The identifier arguments of the tool, in the order they are bound.
Identifiers(tool, a) ==
    IF tool = "list_tables" THEN <<a.schema>>
    ELSE IF tool = "describe_table" THEN <<a.schema, a.table>>
    ELSE <<>>

\* The execute call of invocation i is the driver call it made last.
Submitted(i) == calls[i] # <<>> /\ calls[i][Len(calls[i])].fn = "execute"

SysSchemaSet == {SysSchemas[k] : k \in 1..Len(SysSchemas)}

\* C9: list_tables and describe_table submit their fixed SQL text with the
\* arguments upper-cased and bound as parameters; any invocation whose
\* arguments differ from this one's only in letter case submits the same
\* text and parameters; and list_tables returns only tables of the catalog
\* schema that is the upper-cased argument.
C9_BoundUpperCased ==
    \A i \in Invs :
        /\ (Submitted(i) /\ op[i] \in {"list_tables", "describe_table"})
            => /\ cursor[i].sql =
                     (IF op[i] = "list_tables" THEN SQL_LIST_TABLES ELSE SQL_DESCRIBE_TABLE)
               /\ Len(cursor[i].params) = Len(Identifiers(op[i], args[i]))
               /\ \A k \in 1..Len(cursor[i].params) :
                     /\ IsUpperCased(cursor[i].params[k])
                     /\ SameButCase(cursor[i].params[k], Identifiers(op[i], args[i])[k])
               /\ \A s \in CaseVariants(args[i].schema) :
                     \A t \in CaseVariants(args[i].table) :
                         LET a == [args[i] EXCEPT !.schema = s, !.table = t]
                         IN /\ StatementText(op[i], a) = cursor[i].sql
                            /\ StatementParams(op[i], a) = cursor[i].params
        /\ (op[i] = "list_tables" /\ Returned(i) /\ IsPayload(ret[i]))
            => \A k \in 1..Len(ret[i].doc) :
                   \E schema \in SysSchemaSet :
                       /\ IsUpperCased(schema)
                       /\ SameButCase(schema, args[i].schema)
                       /\ \E n \in 1..Len(SysTables(schema)) :
                             SysTables(schema)[n] = ret[i].doc[k].v

\* list_tables("t") has returned the two tables of schema T, not the
\* table of the lower-case schema t.
C9_Witness ==
    \E i \in Invs :
        /\ Returned(i)
        /\ op[i] = "list_tables"
        /\ args[i].schema = <<"t">>
        /\ cursor[i].params = << <<"T">> >>
        /\ IsPayload(ret[i])
        /\ Len(ret[i].doc) = 2
        /\ ret[i].doc[1].v = <<"T">>
        /\ ret[i].doc[2].v = <<"T", "T">>

-----------------------------------------------------------------------------
(* Order and multiplicity of the payload *)

\* C10: a payload keeps the backend's order and multiplicity: list_schemas
\* and list_tables return the first field of each fetched row, in fetch
\* order, as a flat list of strings; describe_table and run_sql return the
\* columns in descriptor order and the rows in fetch order.
C10_OrderPreserved ==
    \A i \in Invs :
        (Ended(i) /\ Succeeded(i, "fetchall"))
            => /\ IsPayload(ret[i])
               /\ op[i] \in {"list_schemas", "list_tables"} =>
                     /\ ret[i].shape = "list"
                     /\ Len(ret[i].doc) = Len(cursor[i].rows)
                     /\ \A k \in 1..Len(cursor[i].rows) :
                           /\ ret[i].doc[k].j = "string"
                           /\ ret[i].doc[k].v = cursor[i].rows[k][1].v
               /\ op[i] \in {"describe_table", "run_sql"} =>
                     /\ ret[i].shape = "rows"
                     /\ Len(ret[i].doc.columns) = Len(cursor[i].description)
                     /\ \A k \in 1..Len(cursor[i].description) :
                           ret[i].doc.columns[k].v = cursor[i].description[k][1]
                     /\ Len(ret[i].doc.rows) = Len(cursor[i].rows)
                     /\ \A k \in 1..Len(cursor[i].rows) :
                           /\ Len(ret[i].doc.rows[k]) = Len(cursor[i].rows[k])
                           /\ \A c \in 1..Len(cursor[i].rows[k]) :
                                 ret[i].doc.rows[k][c] = JsonScalar(cursor[i].rows[k][c])

\* list_schemas has returned the three schemas in the order fetched.
C10_Witness ==
    \E i \in Invs :
        /\ Returned(i)
        /\ op[i] = "list_schemas"
        /\ IsPayload(ret[i])
        /\ cursor[i].rows = << <<Str(<<"T">>)>>, <<Str(<<"T", "_">>)>>, <<Str(<<"t">>)>> >>
        /\ ret[i].doc = << [j |-> "string", v |-> <<"T">>],
                           [j |-> "string", v |-> <<"T", "_">>],
                           [j |-> "string", v |-> <<"t">>] >>

-----------------------------------------------------------------------------
(* Encoding of the values of a result set *)

JsonNull == [j |-> "null", v |-> <<>>]

JsonBoolean(text) == [j |-> "boolean", v |-> <<text>>]

JsonNumber(chars) == [j |-> "number", v |-> chars]

JsonString(chars) == [j |-> "string", v |-> chars]

\* What Python prints for json.dumps(cell, default=json_default), value by
\* value.
ExpectedEncoding(cell) ==
    CASE cell = None -> JsonNull
      [] cell = Bool(TRUE) -> JsonBoolean("true")
      [] cell = Integer("7") -> JsonNumber(<<"7">>)
      [] cell = Float(<<"1", ".", "5">>) -> JsonNumber(<<"1", ".", "5">>)
      [] cell = Str(<<"x">>) -> JsonString(<<"x">>)
      [] cell = Decimal(<<"1", ".", "1", "0">>) -> JsonNumber(<<"1", ".", "1">>)
      [] cell = Decimal(<<"2">>) -> JsonNumber(<<"2", ".", "0">>)
      [] cell = DateTime(2024, 1, 5, 7, 8, 9, 0) -> JsonString(<<"2024-01-05T07:08:09">>)
      [] cell = DateTime(2024, 12, 31, 23, 59, 59, 1500)
           -> JsonString(<<"2024-12-31T23:59:59.001500">>)
      [] cell = Date(2024, 1, 5) -> JsonString(<<"2024-01-05">>)
      [] cell = Bytes("ab") -> JsonString(<<"b'ab'">>)

\* C11: encoding is total and a function of the value: None gives null, a
\* datetime or date its ISO-8601 string, a Decimal a floating-point number,
\* bool, int, float and str themselves, any other value its str(); a Rows
\* payload built from such values is never an error result.
C11_EncodingTotal ==
    \A i \in Invs :
        (op[i] = "run_sql" /\ args[i].query = Q_TYPED /\ Succeeded(i, "fetchall"))
            => /\ IsPayload(ret[i])
               /\ ret[i].shape = "rows"
               /\ Len(ret[i].doc.rows) = Len(cursor[i].rows)
               /\ \A k \in 1..Len(cursor[i].rows) :
                     ret[i].doc.rows[k] = <<ExpectedEncoding(cursor[i].rows[k][1])>>

\* A Decimal and a datetime with microseconds have been returned encoded.
C11_Witness ==
    \E i \in Invs :
        /\ Returned(i)
        /\ op[i] = "run_sql"
        /\ cursor[i].rows = << <<Decimal(<<"1", ".", "1", "0">>)>>,
                               <<DateTime(2024, 12, 31, 23, 59, 59, 1500)>> >>
        /\ IsPayload(ret[i])
        /\ ret[i].doc.rows = << <<JsonNumber(<<"1", ".", "1">>)>>,
                                <<JsonString(<<"2024-12-31T23:59:59.001500">>)>> >>

-----------------------------------------------------------------------------
(* Startup and test mode *)

\* C12: a missing config file is fatal at startup: the process aborts
\* before it serves, so a serving process whose config file is missing never
\* handles a tool invocation.
C12_MissingConfigNeverServes ==
    config_file = "missing" => \A i \in Invs : ~(main = "serving" /\ Ended(i))

ProcessEnded == main \in {"exited", "crashed"}

\* C15: in test mode run_sql is invoked with the test string, its result
\* (payload or error) is printed after the banner, the server is never
\* started and the process exits.
C15_TestModePrintsResult ==
    TestMode(cli)
        => /\ main # "serving"
           /\ \A i \in Invs : pc[i] # "idle" => (op[i] = "run_sql" /\ args[i].query = cli.test)
           /\ ProcessEnded =>
                 /\ Cardinality({i \in Invs : pc[i] # "idle"}) = 1
                 /\ Len(stdout) = 2
                 /\ stdout[2].kind \in {"json", "error"}

-----------------------------------------------------------------------------
(* No retries *)

\* C13: an invocation makes at most one connection attempt and at most one
\* cursor.execute call, none after a failure, and a failed connection
\* attempt or statement is its error result at once.
C13_NoRetryErrorResult ==
    \A i \in Invs :
        /\ Cardinality(Made(i, "connect")) <= 1
        /\ Cardinality(Made(i, "execute")) <= 1
        /\ (Failed(i, "connect") \/ Failed(i, "execute")) =>
              /\ pc[i] \notin {"connect", "execute"}
              /\ Ended(i) => (Returned(i) /\ IsErrorString(ret[i]))

-----------------------------------------------------------------------------
(* Connections per invocation *)

InFlight == {i \in Invs : pc[i] # "idle"}

\* C14: connections are per invocation: the backend never holds more open
\* connections than there are invocations in flight.
C14_ConnectionsWithinInFlight ==
    open_conns <= Cardinality(InFlight)

-----------------------------------------------------------------------------
(* Order of release *)

UsesOfCursor == {"execute", "fetchall", "commit"}

\* C16: once conn.cursor() returned, cursor.close() is attempted exactly
\* once and before conn.close(), conn.close() is called also when
\* cursor.close() raised, and nothing is executed, fetched or committed
\* after a close.
C16_ReleaseOrdered ==
    \A i \in Invs :
        /\ Cardinality(Made(i, "cursor.close")) <= 1
        /\ Cardinality(Made(i, "conn.close")) <= 1
        /\ Before(i, "cursor.close", "conn.close")
        /\ Made(i, "conn.close") # {} => Made(i, "cursor.close") # {}
        /\ \A fn \in UsesOfCursor :
              Before(i, fn, "cursor.close") /\ Before(i, fn, "conn.close")
        /\ (Ended(i) /\ Succeeded(i, "cursor")) =>
              /\ Cardinality(Made(i, "cursor.close")) = 1
              /\ Cardinality(Made(i, "conn.close")) = 1

\* cursor.close() raised and conn.close() was called after it.
C16_Witness ==
    \E i \in Invs :
        /\ Ended(i)
        /\ Failed(i, "cursor.close")
        /\ Succeeded(i, "conn.close")
        /\ Succeeded(i, "fetchall")

-----------------------------------------------------------------------------
(* Who commits *)

\* C17: conn.commit() is called only by run_sql and only after
\* cursor.execute returned without column descriptor: the three
\* introspection tools never commit, and run_sql does not commit when
\* execute raised or when the statement returns rows.
C17_CommitOnlyForMutation ==
    \A i \in Invs :
        Made(i, "commit") # {}
            => /\ op[i] = "run_sql"
               /\ Succeeded(i, "execute")
               /\ cursor[i].description = NoDescription
               /\ Made(i, "fetchall") = {}

\* A run_sql SELECT has returned its rows without any commit.
C17_Witness ==
    \E i \in Invs :
        /\ Returned(i)
        /\ op[i] = "run_sql"
        /\ args[i].query = Q_SELECT2
        /\ Len(cursor[i].rows) = 2
        /\ IsPayload(ret[i])
        /\ Made(i, "commit") = {}

====
